---- MODULE Spec2Model ----
(***************************************************************************)
(* State machine of the banana-clicker economy client: the EnhancedGame    *)
(* service (src/src/app/services/enhanced-game/enhanced-game.ts), whose    *)
(* click, passive-tick, sync, purchase and submit handlers GameService     *)
(* (src/src/app/services/game/game.ts) shares line for line, apart from    *)
(* the totalBananasEarned / bananaDNA / prestigeCount fields.              *)
(*                                                                         *)
(* One action is one run-to-completion step of the JavaScript event loop:  *)
(* a handler from its entry (or from the resumption of an await) up to its *)
(* next await on the network or its return.  Requests in flight are kept   *)
(* in net; the remote authority answers any of them, in any order, by      *)
(* throwing, by success = false or by success = true with a game state of  *)
(* its choice.                                                             *)
(*                                                                         *)
(* Fields of GameState the service never reads (selectedSkin, ownedSkins,  *)
(* activeBoosts, lastEventCheck) and the achievement / event / leaderboard *)
(* lists are carried by the responses but not represented.                 *)
(***************************************************************************)
EXTENDS Integers, Sequences, FiniteSets, TLC

\* ------------------------------------------------------------------ bounds
MaxSteps == 3          \* clock advances explored
MaxPending == 11       \* cap on pendingClicks
MaxInflight == 2       \* cap on requests outstanding together
MaxCalls == 1          \* cap on page calls (init, purchases, reset) among them
MaxTicks == 1          \* cap on passive ticks and golden rewards credited
MaxBananas == 300      \* cap on the balance reached by offline credits
MaxStoreClicks == 1    \* cap on pendingClicks while the store is explored
MaxOwned == 4          \* largest owned count in a priced catalog

\* ------------------------------------------------------- program constants
SYNC_INTERVAL_MS == 30000
CLICK_COOLDOWN_MS == 100
SYNC_BATCH_CLICKS == 10
SYNC_MIN_GAP_MS == 10000
OFFLINE_MIN_SECONDS == 60
MAX_OFFLINE_SECONDS == 8 * 60 * 60
PRESTIGE_THRESHOLD == 1000000000

\* ------------------------------------------------------------ environment
T0 == 20 * SYNC_MIN_GAP_MS         \* Date.now() when the service is built
StepMs == SYNC_MIN_GAP_MS          \* granularity of the modelled clock
MaxNow == T0 + MaxSteps * StepMs
OfflineGapMs == 2 * OFFLINE_MIN_SECONDS * 1000  \* age of a stale ledger

NoSession == "null"               \* localStorage.getItem(...) === null
StorageBlocked == "blocked"       \* localStorage throws on every access
StoredAtStart == {NoSession}      \* what storage holds at construction
SessionIds == {"s1"}                \* ids the remote authority mints
Names == {"", " ", "Bob", " Bob "}
GoldenRewards == {5}                \* rewards the remote authority grants
UpgradeIds == {"click_1", "dna_1", "ghost"}

VARIABLES
  now,              \* Date.now()
  gs,               \* gameStateSignal
  upgrades,         \* upgradesSignal: Map id -> UpgradeType
  pendingClicks,    \* private pendingClicks
  clickCooldown,    \* clickCooldownSignal
  cooldownTimers,   \* setTimeout callbacks of handleClick not yet run
  lastSyncSignal,   \* lastSyncSignal
  loading,          \* loadingSignal
  stored,           \* localStorage['banana-session-id']
  net,              \* requests awaiting their response
  submitPc,         \* position and trimmed name of the running submitScore
  effectDirty,      \* the constructor's effect is scheduled to run
  ticks,            \* passive ticks and golden-banana rewards credited so far
  syncDue,          \* the sync timer's callback is queued
  synced,           \* a sync or an init has succeeded since construction
  settled,          \* the remote authority has recovered for good and the
                    \* player has stopped clicking
  profile,          \* player name, persisted name and leaderboard
  autoSyncInterval, \* the interval handle of startAutoSync is armed
  isBuying,         \* EnhancedClicker.isBuying
  issueOrder,       \* net lists the requests in the order they were issued
  ev                \* the step that produced the current state

vars == <<now, gs, upgrades, pendingClicks, clickCooldown, cooldownTimers,
          lastSyncSignal, loading, stored, net, submitPc, effectDirty,
          ticks, syncDue, synced, settled, profile,
          autoSyncInterval, isBuying, issueOrder, ev>>

\* ----------------------------------------------------------------- helpers
\* What the service holds, as a handler finds it on entry.
Snap ==
  [gs |-> gs, upgrades |-> upgrades, pendingClicks |-> pendingClicks,
   clickCooldown |-> clickCooldown, cooldownTimers |-> cooldownTimers,
   lastSyncSignal |-> lastSyncSignal, loading |-> loading,
   stored |-> stored]

\* The handler k ran from the state before.
EvB(k) == [kind |-> k, before |-> Snap]

Min(a, b) == IF a < b THEN a ELSE b

RECURSIVE Pow(_, _)
Pow(b, n) == IF n = 0 THEN 1 ELSE b * Pow(b, n - 1)

\* ev names the handler that ran last when a property is stated about it;
\* steps no property singles out (the clock, the cooldown expiry, runs of
\* the ticker and of the effect that credit nothing) leave Quiet.
Ev(k) == [kind |-> k]
Quiet == Ev("quiet")

\* The state the signal is constructed with.
DefaultState ==
  [sessionId |-> "", bananas |-> 0, bananasPerClick |-> 1,
   bananasPerSecond |-> 0, totalClicks |-> 0, lastSyncTime |-> T0,
   bananaDNA |-> 0, totalBananasEarned |-> 0, prestigeCount |-> 0]

\* Game states the remote authority may answer with for session sid: a
\* ledger synced at T0 with no passive income, and a richer ledger with
\* passive income that was last synced OfflineGapMs before T0.
ServerStates(sid) ==
  { [sessionId |-> sid, bananas |-> 9, bananasPerClick |-> 1,
     bananasPerSecond |-> 0, totalClicks |-> 9, lastSyncTime |-> T0,
     bananaDNA |-> 0, totalBananasEarned |-> 9, prestigeCount |-> 0],
    [sessionId |-> sid, bananas |-> 10, bananasPerClick |-> 2,
     bananasPerSecond |-> 1, totalClicks |-> 10,
     lastSyncTime |-> T0 - OfflineGapMs,
     bananaDNA |-> 1, totalBananasEarned |-> PRESTIGE_THRESHOLD,
     prestigeCount |-> 1] }

\* Upgrade catalogs the remote authority may answer with (arrays of
\* UpgradeType, already keyed by id as the handlers key them).
EmptyCatalog == [i \in {} |-> 0]

ServerCatalogs ==
  { [i \in {"click_1", "dna_1"} |->
       IF i = "click_1"
         THEN [baseCost |-> 10, type |-> "click", owned |-> k]
         ELSE [baseCost |-> 1, type |-> "prestige", owned |-> 0]]
    : k \in 0..1 }
  \cup { [i \in {"click_1"} |->
            [baseCost |-> 10, type |-> "click", owned |-> 0]] }

\* What a handler does with the upgrades array of a response: a new Map
\* keyed by id takes the place of the catalog.
CatalogMerged(cat) ==
  upgrades' = [i \in DOMAIN cat \cup DOMAIN upgrades |->
                 IF i \in DOMAIN cat THEN cat[i] ELSE upgrades[i]]

CatalogApplied(cat) == upgrades' = cat

\* A request as posted: the endpoint, the call that awaits it, and the
\* payload: sessionId, pendingClicks (sync) and the upgrade / skin id.  The
\* clientBananas and lastSyncTime fields of the sync payload are copies of
\* the game state that only the remote authority reads.
Req(kind, caller, sid, pc, arg) ==
  [kind |-> kind, caller |-> caller, sessionId |-> sid, pendingClicks |-> pc,
   arg |-> arg]

RemoveAt(s, i) == SubSeq(s, 1, i - 1) \o SubSeq(s, i + 1, Len(s))

\* The requests in flight are kept ordered by endpoint and pending count:
\* responses come back in any order, so the order of posting is not state
\* unless a property speaks of it; issueOrder then has net keep it.
KindRank(k) ==
  CASE k = "init" -> 0
    [] k = "sync" -> 1
    [] k = "upgrade" -> 2
    [] k = "prestige" -> 3
    [] k = "buy-skin" -> 4
    [] k = "reset" -> 5
    [] OTHER -> 6

Rank(r) == KindRank(r.kind) * 100 + r.pendingClicks

Post(n, r) ==
  LET k == IF issueOrder THEN Len(n)
           ELSE Cardinality({i \in 1..Len(n) : Rank(n[i]) <= Rank(r)})
  IN SubSeq(n, 1, k) \o <<r>> \o SubSeq(n, k + 1, Len(n))

Count(n, r) == Cardinality({i \in 1..Len(n) : n[i] = r})

CallsInFlight(n) ==
  Cardinality({i \in 1..Len(n) :
     n[i].kind \in {"init", "upgrade", "prestige", "buy-skin", "reset",
                    "click-event"}})

SyncsInFlight(n) == Cardinality({i \in 1..Len(n) : n[i].kind = "sync"})

\* What a handler that takes the requests in flight from net to n has
\* posted, and how many sync requests that makes.
Posted(n) == {r \in {n[i] : i \in 1..Len(n)} : Count(n, r) > Count(net, r)}

EvS(k, n) ==
  [kind |-> k, before |-> Snap,
   sent |-> SyncsInFlight(n) - SyncsInFlight(net), posted |-> Posted(n)]

\* ------------------------------------------------------ economy calculators
calculateUpgradeCostAlwaysScaled(u) ==
  (u.baseCost * Pow(23, u.owned)) \div Pow(20, u.owned)

calculateUpgradeCost(u) ==
  IF u.type = "prestige" THEN u.baseCost
  ELSE (u.baseCost * Pow(23, u.owned)) \div Pow(20, u.owned)

\* What Math.floor(baseCost * Math.pow(1.15, owned)) can return.  1.15 is
\* not a double, so where the product is a whole number the doubles may
\* land just below it and the floor one unit lower (100 at owned 1 gives
\* 114); a base cost of 0, an owned count of 0 and the flat prestige cost
\* involve no rounding.
calculateUpgradeCostResults(u) ==
  LET c == calculateUpgradeCost(u) IN
  IF /\ u.type # "prestige" /\ u.owned > 0 /\ u.baseCost > 0
     /\ (u.baseCost * Pow(23, u.owned)) % Pow(20, u.owned) = 0
    THEN {c - 1, c}
    ELSE {c}

canAffordOnCredit(state, cost, isDNA) == TRUE

canAffordStrictly(state, cost, isDNA) ==
  IF isDNA THEN state.bananaDNA > cost ELSE state.bananas > cost

canAffordInBananas(state, cost, isDNA) == state.bananas >= cost

canAffordUpgrade(state, cost, isDNA) ==
  IF isDNA THEN state.bananaDNA >= cost ELSE state.bananas >= cost

canPrestigeOnBalance(state) == state.bananas >= PRESTIGE_THRESHOLD

canPrestige(state) == state.totalBananasEarned >= PRESTIGE_THRESHOLD

\* Amount calculateOfflineEarnings credits for state at time t (0: none).
OfflineAmountFromThreshold(state, t) ==
  LET diffMs == t - state.lastSyncTime IN
  IF diffMs >= OFFLINE_MIN_SECONDS * 1000 /\ state.bananasPerSecond > 0
    THEN (Min(diffMs, MAX_OFFLINE_SECONDS * 1000) * state.bananasPerSecond)
           \div 1000
    ELSE 0

OfflineAmount(state, t) ==
  LET diffMs == t - state.lastSyncTime IN
  IF diffMs > OFFLINE_MIN_SECONDS * 1000 /\ state.bananasPerSecond > 0
    THEN (Min(diffMs, MAX_OFFLINE_SECONDS * 1000) * state.bananasPerSecond)
           \div 1000
    ELSE 0

calculateOfflineEarningsFromBalance(state, t) ==
  LET e == OfflineAmount(state, t) IN
  IF e > 0
    THEN [state EXCEPT !.bananas = @ + e,
                       !.totalBananasEarned = state.bananas + e]
    ELSE state

calculateOfflineEarningsStamped(state, t) ==
  LET e == OfflineAmount(state, t) IN
  IF e > 0
    THEN [state EXCEPT !.bananas = @ + e, !.totalBananasEarned = @ + e,
                       !.lastSyncTime = t]
    ELSE state

calculateOfflineEarnings(state, t) ==
  LET e == OfflineAmount(state, t) IN
  IF e > 0
    THEN [state EXCEPT !.bananas = @ + e, !.totalBananasEarned = @ + e]
    ELSE state

\* ------------------------------------------------------------------- sync
\* The guard at the head of syncWithServer, for a pending-click count pc.
SyncSkipsUpToGap(pc) == pc = 0 /\ now - lastSyncSignal <= SYNC_MIN_GAP_MS

SyncSkipsWhenRecent(pc) == now - lastSyncSignal < SYNC_MIN_GAP_MS

SyncSkips(pc) == pc = 0 /\ now - lastSyncSignal < SYNC_MIN_GAP_MS

\* net after syncWithServer has run up to its await, called with the game
\* state st and pending count pc in force.
SyncRequested(pc, st, caller) ==
  IF SyncSkips(pc) THEN net
  ELSE Post(net, Req("sync", caller, st.sessionId, pc, ""))

\* ------------------------------------------------------------------- Init
\* The name and leaderboard signals as constructed, and a browser that holds
\* no 'banana-player-name' entry.
NoName == "null"

\* No submitScore call is running.
SubmitIdle == [at |-> "idle", name |-> ""]

DefaultProfile == [playerName |-> "", storedName |-> NoName,
                   leaderboard |-> <<>>]

\* The leaderboard and the player name the server returns for a session that
\* has submitted no score.
ServerLeaderboard == <<"Ann">>

ServerPlayerName == ""

\* The leaderboards a submit-score response may carry once the name is in.
SubmittedLeaderboards(name) == {<<"Ann", name>>}

Constructed ==
  /\ now = T0
  /\ gs = DefaultState
  /\ upgrades = EmptyCatalog
  /\ pendingClicks = 0
  /\ clickCooldown = FALSE
  /\ cooldownTimers = 0
  /\ lastSyncSignal = T0
  /\ loading = TRUE
  /\ stored \in StoredAtStart
  /\ net = <<>>
  /\ submitPc = SubmitIdle
  /\ effectDirty = TRUE
  /\ ticks = 0
  /\ syncDue = FALSE
  /\ synced = FALSE
  /\ settled = FALSE
  /\ profile = DefaultProfile
  /\ autoSyncInterval = TRUE
  /\ isBuying = FALSE
  /\ ev = Ev("constructed")

Init == Constructed /\ issueOrder = FALSE

\* The same start with the requests in flight kept in issue order.
InitInIssueOrder == Constructed /\ issueOrder = TRUE

\* ---------------------------------------------------------- click governor
\* handleClick while the cooldown flag is set: early return.
HandleClickDropped ==
  /\ clickCooldown
  /\ UNCHANGED <<now, gs, upgrades, pendingClicks, clickCooldown,
                 cooldownTimers, lastSyncSignal, loading, stored, profile,
                 autoSyncInterval, isBuying, issueOrder, net, submitPc,
                 effectDirty, ticks, syncDue, synced, settled>>
  /\ ev' = EvS("clickDropped", net')

\* The optimistic update of handleClick.
ClickedWithoutLifetime(state) ==
  [state EXCEPT !.bananas = @ + state.bananasPerClick,
                !.totalClicks = @ + 1]

Clicked(state) ==
  [state EXCEPT !.bananas = @ + state.bananasPerClick,
                !.totalClicks = @ + 1,
                !.totalBananasEarned = @ + state.bananasPerClick]

\* The batching test at the end of handleClick.
BatchFullAbove(pc) == pc > SYNC_BATCH_CLICKS

BatchFull(pc) == pc >= SYNC_BATCH_CLICKS

\* handleClick past its cooldown check: the flag and its timer, the counter,
\* the optimistic update, and the sync once the batch is full.
HandleClickBody ==
  /\ ~settled /\ pendingClicks < MaxPending
  /\ LET pc == pendingClicks + 1
         st == Clicked(gs)
         n  == IF BatchFull(pc)
                 THEN SyncRequested(pc, st, "syncWithServer") ELSE net
     IN /\ Len(n) <= MaxInflight
        /\ clickCooldown' = TRUE
        /\ cooldownTimers' = cooldownTimers + 1
        /\ pendingClicks' = pc
        /\ gs' = st
        /\ net' = n
        /\ ev' = EvS("click", n)
  /\ effectDirty' = TRUE
  /\ UNCHANGED <<now, upgrades, lastSyncSignal, loading, stored, profile,
                 autoSyncInterval, isBuying, issueOrder, submitPc, ticks,
                 syncDue, synced, settled>>

HandleClickIgnoringCooldown == HandleClickBody

\* handleClick while the cooldown flag is clear.
HandleClickWhenIdle ==
  /\ net = <<>>
  /\ ~clickCooldown
  /\ HandleClickBody

HandleClickAccepted ==
  /\ ~clickCooldown
  /\ HandleClickBody

\* The setTimeout callback of handleClick.
CooldownExpireKeepsFlag ==
  /\ cooldownTimers > 0
  /\ cooldownTimers' = cooldownTimers - 1
  /\ ev' = Quiet
  /\ UNCHANGED <<now, gs, upgrades, pendingClicks, clickCooldown,
                 lastSyncSignal, loading, stored, profile, autoSyncInterval,
                 isBuying, issueOrder, net, submitPc, effectDirty, ticks,
                 syncDue, synced, settled>>

CooldownExpire ==
  /\ cooldownTimers > 0
  /\ cooldownTimers' = cooldownTimers - 1
  /\ clickCooldown' = FALSE
  /\ ev' = Quiet
  /\ UNCHANGED <<now, gs, upgrades, pendingClicks, lastSyncSignal, loading,
                 stored, profile, autoSyncInterval, isBuying, issueOrder, net,
                 submitPc, effectDirty, ticks, syncDue, synced, settled>>

\* ---------------------------------------------------------------- timers
\* The update the ticker applies when the rate is positive.
TickedBalanceOnly(state) ==
  [state EXCEPT !.bananas = @ + state.bananasPerSecond]

Ticked(state) ==
  [state EXCEPT !.bananas = @ + state.bananasPerSecond,
                !.totalBananasEarned = @ + state.bananasPerSecond]

\* The setInterval callback of startAutoGeneration.
AutoGeneration ==
  /\ UNCHANGED <<now, upgrades, pendingClicks, clickCooldown, cooldownTimers,
                 lastSyncSignal, loading, stored, profile, autoSyncInterval,
                 isBuying, issueOrder, net, submitPc, syncDue, synced,
                 settled>>
  /\ IF gs.bananasPerSecond > 0
       THEN /\ ticks < MaxTicks
            /\ ticks' = ticks + 1
            /\ gs' = Ticked(gs)
            /\ effectDirty' = TRUE
            /\ ev' = EvS("tick", net')
       ELSE /\ ev' = Quiet
            /\ UNCHANGED <<gs, effectDirty, ticks>>

\* The setInterval callback of startAutoSync.
AutoSync ==
  /\ syncDue
  /\ syncDue' = FALSE
  /\ net' = SyncRequested(pendingClicks, gs, "syncWithServer")
  /\ Len(net') <= MaxInflight
  /\ ev' = EvS("autoSync", net')
  /\ UNCHANGED <<now, gs, upgrades, pendingClicks, clickCooldown,
                 cooldownTimers, lastSyncSignal, loading, stored, profile,
                 autoSyncInterval, isBuying, issueOrder, submitPc,
                 effectDirty, ticks, synced, settled>>

\* ngOnDestroy: the interval of startAutoSync is cleared, and with it a
\* callback that was due; the interval of startAutoGeneration, whose handle
\* was not kept, is left running.
NgOnDestroy ==
  /\ autoSyncInterval
  /\ autoSyncInterval' = FALSE
  /\ syncDue' = FALSE
  /\ ev' = Ev("destroyed")
  /\ UNCHANGED <<now, gs, upgrades, pendingClicks, clickCooldown,
                 cooldownTimers, lastSyncSignal, loading, stored, profile,
                 isBuying, issueOrder, net, submitPc, effectDirty, ticks,
                 synced, settled>>

\* Wall-clock time passes; every SYNC_INTERVAL_MS after construction the
\* sync timer's callback becomes due (and runs when the event loop gets to
\* it, see AutoSync).
AdvanceTime ==
  /\ now + StepMs <= MaxNow
  /\ now' = now + StepMs
  /\ syncDue' = (syncDue \/ (autoSyncInterval
                             /\ (now' - T0) % SYNC_INTERVAL_MS = 0))
  /\ ev' = Quiet
  /\ UNCHANGED <<gs, upgrades, pendingClicks, clickCooldown, cooldownTimers,
                 lastSyncSignal, loading, stored, profile, autoSyncInterval,
                 isBuying, issueOrder, net, submitPc, effectDirty, ticks,
                 synced, settled>>

\* ------------------------------------------------------------ session start
\* initGame up to its await.
getSessionIdIgnoringStorage == NoSession

\* The stored id, or null when there is none or storage cannot be read.
getSessionIdFromStorage ==
  IF stored = StorageBlocked THEN NoSession ELSE stored

InitGame ==
  /\ Len(net) < MaxInflight /\ CallsInFlight(net) < MaxCalls
  /\ loading' = TRUE
  /\ net' = Post(net, Req("init", "initGame", getSessionIdFromStorage,
                          0, ""))
  /\ ev' = Ev("initCall")
  /\ UNCHANGED <<now, gs, upgrades, pendingClicks, clickCooldown,
                 cooldownTimers, lastSyncSignal, stored, profile,
                 autoSyncInterval, isBuying, issueOrder, submitPc,
                 effectDirty, ticks, syncDue, synced, settled>>

\* What initGame does with the governor when its response arrives: nothing.
InitClearsCooldown == clickCooldown' = FALSE /\ UNCHANGED cooldownTimers

InitKeepsGovernor == UNCHANGED <<clickCooldown, cooldownTimers>>

\* initGame resumed with the init response: the session id is the one asked
\* for, or a newly minted one when none was sent.
InitResumed(i, sid, cat, st) ==
  /\ stored # StorageBlocked
  /\ stored' = sid
  /\ gs' = calculateOfflineEarnings(st, now)
  /\ CatalogApplied(cat)
  /\ ev' = [kind |-> "initOk", state |-> st, pending |-> pendingClicks,
            switched |-> gs.sessionId \notin {"", st.sessionId}]
  /\ lastSyncSignal' = now
  /\ synced' = TRUE
  /\ loading' = FALSE
  /\ effectDirty' = TRUE
  /\ net' = RemoveAt(net, i)
  /\ InitKeepsGovernor
  /\ profile' = [profile EXCEPT !.leaderboard = ServerLeaderboard,
                                !.playerName = ServerPlayerName]
  /\ UNCHANGED <<now, pendingClicks, submitPc, ticks, syncDue, settled,
                 autoSyncInterval, isBuying, issueOrder>>

InitOk(i) ==
  /\ net[i].kind = "init"
  /\ \E sid \in (IF net[i].sessionId = NoSession THEN SessionIds
                 ELSE {net[i].sessionId}),
        cat \in ServerCatalogs :
       \E st \in ServerStates(sid) : InitResumed(i, sid, cat, st)

\* initGame resumed with a rejected request: catch, then finally.
InitFail(i) ==
  /\ net[i].kind = "init"
  /\ loading' = FALSE
  /\ net' = RemoveAt(net, i)
  /\ ev' = EvB("initFail")
  /\ UNCHANGED <<now, gs, upgrades, pendingClicks, clickCooldown,
                 cooldownTimers, lastSyncSignal, stored, profile,
                 autoSyncInterval, isBuying, issueOrder, submitPc,
                 effectDirty, ticks, syncDue, synced, settled>>

\* initGame resumed with the init response while storage throws: setItem
\* raises inside the try block, so the response is dropped by the catch.
InitStoreThrows(i) ==
  /\ net[i].kind = "init"
  /\ stored = StorageBlocked
  /\ loading' = FALSE
  /\ net' = RemoveAt(net, i)
  /\ ev' = EvB("initThrown")
  /\ UNCHANGED <<now, gs, upgrades, pendingClicks, clickCooldown,
                 cooldownTimers, lastSyncSignal, stored, profile,
                 autoSyncInterval, isBuying, issueOrder, submitPc,
                 effectDirty, ticks, syncDue, synced, settled>>

\* ------------------------------------------------------------------- sync
\* What syncWithServer does with a response that has success = true.
SyncAppliedKeepsLocalGains(st) ==
  /\ gs' = [st EXCEPT !.bananas = IF gs.bananas > @ THEN gs.bananas ELSE @]
  /\ pendingClicks' = 0
  /\ lastSyncSignal' = now
  /\ effectDirty' = TRUE
  /\ synced' = TRUE
  /\ profile' = [profile EXCEPT !.leaderboard = ServerLeaderboard]

SyncAppliedKeepsPending(st) ==
  /\ gs' = st
  /\ pendingClicks' = pendingClicks
  /\ lastSyncSignal' = now
  /\ effectDirty' = TRUE
  /\ synced' = TRUE
  /\ profile' = [profile EXCEPT !.leaderboard = ServerLeaderboard]

SyncApplied(st) ==
  /\ gs' = st
  /\ pendingClicks' = 0
  /\ lastSyncSignal' = now
  /\ effectDirty' = TRUE
  /\ synced' = TRUE
  /\ profile' = [profile EXCEPT !.leaderboard = ServerLeaderboard]

\* What syncWithServer does with success = false or a thrown error.
SyncAbandonedClearsPending ==
  /\ pendingClicks' = 0
  /\ UNCHANGED <<gs, lastSyncSignal, effectDirty, synced>>

SyncAbandoned ==
  UNCHANGED <<gs, pendingClicks, lastSyncSignal, effectDirty, synced>>

\* The submit-score request submitScore posts once its sync has returned.
SubmitRequest(st, name) ==
  Req("submit-score", "submitScore", st.sessionId, 0, name)

\* A sync started by a click or by the timer gets its response.
SyncOk(i) ==
  /\ net[i].kind = "sync" /\ net[i].caller # "submitScore"
  /\ \E st \in ServerStates(net[i].sessionId) :
       /\ SyncApplied(st)
       /\ ev' = [kind |-> "syncOk", state |-> st, req |-> net[i],
                 pending |-> pendingClicks, local |-> gs.bananas,
                 older |-> IF issueOrder THEN i - 1 ELSE 0]
  /\ net' = RemoveAt(net, i)
  /\ UNCHANGED <<now, upgrades, clickCooldown, cooldownTimers, loading,
                 stored, autoSyncInterval, isBuying, issueOrder, submitPc,
                 ticks, syncDue, settled>>

SyncFail(i) ==
  /\ net[i].kind = "sync" /\ net[i].caller # "submitScore"
  /\ ~settled
  /\ SyncAbandoned
  /\ net' = RemoveAt(net, i)
  /\ ev' = EvB("syncFail")
  /\ UNCHANGED <<now, upgrades, clickCooldown, cooldownTimers, loading,
                 stored, profile, autoSyncInterval, isBuying, issueOrder,
                 submitPc, ticks, syncDue, settled>>

\* --------------------------------------------------------------- purchases
\* buyUpgrade(id) ran from the state before and took the requests in
\* flight to n.
EvU(k, id, n) ==
  [kind |-> k, id |-> id, before |-> Snap, posted |-> Posted(n)]

\* The finally block of EnhancedClicker.buyUpgrade, run when the service's
\* buyUpgrade returns to a call made through the component.
BuyingAfter(r) == isBuying /\ r.caller # "EnhancedClicker"

\* The test at the head of EnhancedClicker.buyUpgrade.
PurchaseRefusedWhenPoor(id) ==
  ~canAffordUpgrade(gs, calculateUpgradeCost(upgrades[id]),
                    upgrades[id].type = "prestige")

PurchaseRefused(id) ==
  \/ isBuying
  \/ ~canAffordUpgrade(gs, calculateUpgradeCost(upgrades[id]),
                       upgrades[id].type = "prestige")

\* EnhancedClicker.buyUpgrade for an upgrade of the catalog, up to the await
\* inside the service's buyUpgrade, whose own lookup and affordability test
\* see the state the component has just tested.
EnhancedClickerBuyUpgrade(id) ==
  /\ id \in DOMAIN upgrades
  /\ IF PurchaseRefused(id)
       THEN /\ UNCHANGED <<net, isBuying>>
            /\ ev' = EvU("buyIgnored", id, net')
     ELSE /\ Len(net) < MaxInflight
          /\ isBuying' = TRUE
          /\ net' = Post(net, Req("upgrade", "EnhancedClicker",
                                    gs.sessionId, 0, id))
          /\ ev' = EvU("buyCall", id, net')
  /\ UNCHANGED <<now, gs, upgrades, pendingClicks, clickCooldown,
                 cooldownTimers, lastSyncSignal, loading, stored, profile,
                 autoSyncInterval, issueOrder, submitPc, effectDirty, ticks,
                 syncDue, synced, settled>>

\* buyUpgrade up to its await, or to its early return.
BuyUpgrade(id) ==
  /\ IF id \notin DOMAIN upgrades
       THEN /\ UNCHANGED net
            /\ ev' = EvU("upgradeNotFound", id, net')
     ELSE IF ~canAffordUpgrade(gs, calculateUpgradeCost(upgrades[id]),
                               upgrades[id].type = "prestige")
       THEN /\ UNCHANGED net
            /\ ev' = EvU("upgradeUnaffordable", id, net')
     ELSE /\ Len(net) < MaxInflight /\ CallsInFlight(net) < MaxCalls
          /\ net' = Post(net, Req("upgrade", "buyUpgrade", gs.sessionId,
                                    0, id))
          /\ ev' = EvU("upgradeCall", id, net')
  /\ UNCHANGED <<now, gs, upgrades, pendingClicks, clickCooldown,
                 cooldownTimers, lastSyncSignal, loading, stored, profile,
                 autoSyncInterval, isBuying, issueOrder, submitPc,
                 effectDirty, ticks, syncDue, synced, settled>>

UpgradeOk(i) ==
  /\ net[i].kind = "upgrade"
  /\ \E st \in ServerStates(net[i].sessionId), cat \in ServerCatalogs :
       /\ gs' = st
       /\ CatalogApplied(cat)
       /\ ev' = [kind |-> "upgradeOk", state |-> st, catalog |-> cat,
                  pending |-> pendingClicks, local |-> gs.bananas]
  /\ effectDirty' = TRUE
  /\ net' = RemoveAt(net, i)
  /\ isBuying' = BuyingAfter(net[i])
  /\ UNCHANGED <<now, pendingClicks, clickCooldown, cooldownTimers,
                 lastSyncSignal, loading, stored, profile, autoSyncInterval,
                 issueOrder, submitPc, ticks, syncDue, synced, settled>>

UpgradeFailClearsCatalog(i) ==
  /\ net[i].kind = "upgrade"
  /\ net' = RemoveAt(net, i)
  /\ isBuying' = BuyingAfter(net[i])
  /\ ev' = EvS("upgradeFail", net')
  /\ upgrades' = EmptyCatalog
  /\ UNCHANGED <<now, gs, pendingClicks, clickCooldown, cooldownTimers,
                 lastSyncSignal, loading, stored, profile, autoSyncInterval,
                 issueOrder, submitPc, effectDirty, ticks, syncDue, synced,
                 settled>>

\* buyUpgrade resumed with success = false or with an error: it returns a
\* failure result.
UpgradeFail(i) ==
  /\ net[i].kind = "upgrade"
  /\ net' = RemoveAt(net, i)
  /\ isBuying' = BuyingAfter(net[i])
  /\ ev' = EvS("upgradeFail", net')
  /\ UNCHANGED <<now, gs, upgrades, pendingClicks, clickCooldown,
                 cooldownTimers, lastSyncSignal, loading, stored, profile,
                 autoSyncInterval, issueOrder, submitPc, effectDirty, ticks,
                 syncDue, synced, settled>>

\* prestige up to its await, or to its early return.
Prestige ==
  /\ IF ~canPrestige(gs)
       THEN /\ ev' = [kind |-> "prestigeRefused",
                     result |-> [success |-> FALSE, dnaGained |-> 0,
                                 message |->
                                   "Need 1 billion lifetime bananas"]]
            /\ UNCHANGED net
       ELSE /\ Len(net) < MaxInflight /\ CallsInFlight(net) < MaxCalls
            /\ net' = Post(net, Req("prestige", "prestige", gs.sessionId,
                                      0, ""))
            /\ ev' = Ev("prestigeCall")
  /\ UNCHANGED <<now, gs, upgrades, pendingClicks, clickCooldown,
                 cooldownTimers, lastSyncSignal, loading, stored, profile,
                 autoSyncInterval, isBuying, issueOrder, submitPc,
                 effectDirty, ticks, syncDue, synced, settled>>

PrestigeOk(i) ==
  /\ net[i].kind = "prestige"
  /\ \E st \in ServerStates(net[i].sessionId), cat \in ServerCatalogs :
       /\ gs' = st
       /\ CatalogApplied(cat)
       /\ ev' = [kind |-> "prestigeOk", state |-> st, catalog |-> cat,
                  pending |-> pendingClicks, local |-> gs.bananas]
  /\ effectDirty' = TRUE
  /\ net' = RemoveAt(net, i)
  /\ UNCHANGED <<now, pendingClicks, clickCooldown, cooldownTimers,
                 lastSyncSignal, loading, stored, profile, autoSyncInterval,
                 isBuying, issueOrder, submitPc, ticks, syncDue, synced,
                 settled>>

PrestigeFail(i) ==
  /\ net[i].kind = "prestige"
  /\ net' = RemoveAt(net, i)
  /\ ev' = [kind |-> "prestigeFail", before |-> Snap,
            result |-> [success |-> FALSE, dnaGained |-> 0]]
  /\ UNCHANGED <<now, gs, upgrades, pendingClicks, clickCooldown,
                 cooldownTimers, lastSyncSignal, loading, stored, profile,
                 autoSyncInterval, isBuying, issueOrder, submitPc,
                 effectDirty, ticks, syncDue, synced, settled>>

\* buySkin up to its await.
BuySkin ==
  /\ Len(net) < MaxInflight /\ CallsInFlight(net) < MaxCalls
  /\ net' = Post(net, Req("buy-skin", "buySkin", gs.sessionId, 0, "skin"))
  /\ ev' = Ev("buySkinCall")
  /\ UNCHANGED <<now, gs, upgrades, pendingClicks, clickCooldown,
                 cooldownTimers, lastSyncSignal, loading, stored, profile,
                 autoSyncInterval, isBuying, issueOrder, submitPc,
                 effectDirty, ticks, syncDue, synced, settled>>

BuySkinOk(i) ==
  /\ net[i].kind = "buy-skin"
  /\ \E st \in ServerStates(net[i].sessionId) :
       /\ gs' = st
       /\ ev' = [kind |-> "buySkinOk", state |-> st,
                  pending |-> pendingClicks]
  /\ effectDirty' = TRUE
  /\ net' = RemoveAt(net, i)
  /\ UNCHANGED <<now, upgrades, pendingClicks, clickCooldown, cooldownTimers,
                 lastSyncSignal, loading, stored, profile, autoSyncInterval,
                 isBuying, issueOrder, submitPc, ticks, syncDue, synced,
                 settled>>

BuySkinFail(i) ==
  /\ net[i].kind = "buy-skin"
  /\ net' = RemoveAt(net, i)
  /\ ev' = EvB("buySkinFail")
  /\ UNCHANGED <<now, gs, upgrades, pendingClicks, clickCooldown,
                 cooldownTimers, lastSyncSignal, loading, stored, profile,
                 autoSyncInterval, isBuying, issueOrder, submitPc,
                 effectDirty, ticks, syncDue, synced, settled>>

\* clickGoldenBanana up to its await.
ClickGoldenBanana ==
  /\ Len(net) < MaxInflight /\ CallsInFlight(net) < MaxCalls
  /\ net' = Post(net, Req("click-event", "clickGoldenBanana", gs.sessionId,
                          0, "event"))
  /\ ev' = Ev("goldenCall")
  /\ UNCHANGED <<now, gs, upgrades, pendingClicks, clickCooldown,
                 cooldownTimers, lastSyncSignal, loading, stored, profile,
                 autoSyncInterval, isBuying, issueOrder, submitPc,
                 effectDirty, ticks, syncDue, synced, settled>>

\* The reward of a golden banana, added to the state in force.
RewardedBalanceOnly(state, reward) ==
  [state EXCEPT !.bananas = @ + reward]

RewardedWithDNA(state, reward) ==
  [state EXCEPT !.bananas = @ + reward, !.totalBananasEarned = @ + reward,
                !.bananaDNA = @ + 1]

Rewarded(state, reward) ==
  [state EXCEPT !.bananas = @ + reward, !.totalBananasEarned = @ + reward]

GoldenOk(i) ==
  /\ net[i].kind = "click-event"
  /\ ticks < MaxTicks
  /\ ticks' = ticks + 1
  /\ \E reward \in GoldenRewards :
       /\ gs' = Rewarded(gs, reward)
       /\ ev' = [kind |-> "goldenOk", before |-> Snap, reward |-> reward]
  /\ effectDirty' = TRUE
  /\ net' = RemoveAt(net, i)
  /\ UNCHANGED <<now, upgrades, pendingClicks, clickCooldown, cooldownTimers,
                 lastSyncSignal, loading, stored, profile, autoSyncInterval,
                 isBuying, issueOrder, submitPc, syncDue, synced, settled>>

GoldenFail(i) ==
  /\ net[i].kind = "click-event"
  /\ net' = RemoveAt(net, i)
  /\ ev' = EvB("goldenFail")
  /\ UNCHANGED <<now, gs, upgrades, pendingClicks, clickCooldown,
                 cooldownTimers, lastSyncSignal, loading, stored, profile,
                 autoSyncInterval, isBuying, issueOrder, submitPc,
                 effectDirty, ticks, syncDue, synced, settled>>

\* resetGame up to its await.
ResetGame ==
  /\ Len(net) < MaxInflight /\ CallsInFlight(net) < MaxCalls
  /\ net' = Post(net, Req("reset", "resetGame", gs.sessionId, 0, ""))
  /\ ev' = Ev("resetCall")
  /\ UNCHANGED <<now, gs, upgrades, pendingClicks, clickCooldown,
                 cooldownTimers, lastSyncSignal, loading, stored, profile,
                 autoSyncInterval, isBuying, issueOrder, submitPc,
                 effectDirty, ticks, syncDue, synced, settled>>

ResetOk(i) ==
  /\ net[i].kind = "reset"
  /\ \E st \in ServerStates(net[i].sessionId), cat \in ServerCatalogs :
       /\ gs' = st
       /\ CatalogApplied(cat)
       /\ ev' = [kind |-> "resetOk", state |-> st,
                  pending |-> pendingClicks]
  /\ effectDirty' = TRUE
  /\ net' = RemoveAt(net, i)
  /\ UNCHANGED <<now, pendingClicks, clickCooldown, cooldownTimers,
                 lastSyncSignal, loading, stored, profile, autoSyncInterval,
                 isBuying, issueOrder, submitPc, ticks, syncDue, synced,
                 settled>>

ResetFail(i) ==
  /\ net[i].kind = "reset"
  /\ net' = RemoveAt(net, i)
  /\ ev' = EvB("resetFail")
  /\ UNCHANGED <<now, gs, upgrades, pendingClicks, clickCooldown,
                 cooldownTimers, lastSyncSignal, loading, stored, profile,
                 autoSyncInterval, isBuying, issueOrder, submitPc,
                 effectDirty, ticks, syncDue, synced, settled>>

\* ------------------------------------------------------------ submit score
Trim(name) == IF name \in {"", " "} THEN "" ELSE "Bob"

\* submitScore from its entry to its first await on the network: the early
\* return on an empty name, else syncWithServer; when the guard skips the
\* sync, the await resolves at once and the submission is posted.
SubmitScore(name) ==
  /\ submitPc = SubmitIdle
  /\ IF Trim(name) = ""
       THEN /\ UNCHANGED <<net, submitPc>>
            /\ ev' = [kind |-> "submitEmptyName", posted |-> Posted(net'),
                     result |-> [success |-> FALSE,
                                 message |-> "Name cannot be empty"]]
     ELSE IF SyncSkips(pendingClicks)
       THEN /\ Len(net) < MaxInflight
            /\ net' = Post(net, SubmitRequest(gs, Trim(name)))
            /\ submitPc' = [at |-> "awaitSubmit", name |-> Trim(name)]
            /\ ev' = [kind |-> "submitSent", sync |-> "skipped",
                     before |-> Snap, sent |-> 0, posted |-> {}]
     ELSE /\ Len(net) < MaxInflight
          /\ net' = SyncRequested(pendingClicks, gs, "submitScore")
          /\ submitPc' = [at |-> "awaitSync", name |-> Trim(name)]
          /\ ev' = EvS("submitSync", net')
  /\ UNCHANGED <<now, gs, upgrades, pendingClicks, clickCooldown,
                 cooldownTimers, lastSyncSignal, loading, stored, profile,
                 autoSyncInterval, isBuying, issueOrder, effectDirty, ticks,
                 syncDue, synced, settled>>

\* The sync awaited by submitScore succeeds: syncWithServer applies it and
\* returns, submitScore resumes and posts the submission.
SubmitSyncOk(i) ==
  /\ net[i].kind = "sync" /\ net[i].caller = "submitScore"
  /\ \E st \in ServerStates(net[i].sessionId) :
       /\ SyncApplied(st)
       /\ net' = Post(RemoveAt(net, i), SubmitRequest(st, submitPc.name))
       /\ ev' = [kind |-> "submitSent", sync |-> "ok", before |-> Snap,
                 state |-> st]
  /\ submitPc' = [submitPc EXCEPT !.at = "awaitSubmit"]
  /\ UNCHANGED <<now, upgrades, clickCooldown, cooldownTimers, loading,
                 stored, autoSyncInterval, isBuying, issueOrder, ticks,
                 syncDue, settled>>

\* The sync awaited by submitScore fails: syncWithServer swallows the
\* failure and returns, submitScore resumes and posts the submission.
SubmitSyncFail(i) ==
  /\ net[i].kind = "sync" /\ net[i].caller = "submitScore"
  /\ ~settled
  /\ SyncAbandoned
  /\ net' = Post(RemoveAt(net, i), SubmitRequest(gs, submitPc.name))
  /\ submitPc' = [submitPc EXCEPT !.at = "awaitSubmit"]
  /\ ev' = [kind |-> "submitSent", sync |-> "failed", before |-> Snap]
  /\ UNCHANGED <<now, upgrades, clickCooldown, cooldownTimers, loading,
                 stored, profile, autoSyncInterval, isBuying, issueOrder,
                 ticks, syncDue, settled>>

\* What submitScore does with a response that has success = true.
SubmitAcceptedKeepsStorage(name, board) ==
  profile' = [profile EXCEPT !.playerName = name, !.leaderboard = board]

SubmitAccepted(name, board) ==
  profile' = [playerName |-> name, storedName |-> name,
              leaderboard |-> board]

\* submitScore resumed with the submit-score response: success = true,
\* success = false, or a thrown error.
SubmitDone(i) ==
  /\ net[i].kind = "submit-score"
  /\ net' = RemoveAt(net, i)
  /\ submitPc' = SubmitIdle
  /\ \/ \E board \in SubmittedLeaderboards(submitPc.name) :
          /\ SubmitAccepted(submitPc.name, board)
          /\ ev' = [kind |-> "submitOk", name |-> submitPc.name,
                    board |-> board,
                    result |-> [success |-> TRUE]]
     \/ /\ ev' = [kind |-> "submitRejected",
                  result |-> [success |-> FALSE]]
        /\ UNCHANGED profile
     \/ /\ ev' = [kind |-> "submitThrown",
                  result |-> [success |-> FALSE,
                              message |-> "Network error"]]
        /\ UNCHANGED profile
  /\ UNCHANGED <<now, gs, upgrades, pendingClicks, clickCooldown,
                 cooldownTimers, lastSyncSignal, loading, stored,
                 autoSyncInterval, isBuying, issueOrder, effectDirty, ticks,
                 syncDue, synced, settled>>

\* ------------------------------------------------------------------ effect
\* The effect registered by the constructor, run after the game state
\* signal changed; its own write to the signal schedules it again.
OfflineEffect ==
  /\ effectDirty
  /\ LET st == IF gs.bananasPerSecond > 0
                 THEN calculateOfflineEarnings(gs, now) ELSE gs
     IN /\ st.bananas <= MaxBananas
        /\ gs' = st
        /\ effectDirty' = (st # gs)
        /\ ev' = (IF st # gs THEN EvS("effectCredit", net) ELSE Quiet)
  /\ UNCHANGED <<now, upgrades, pendingClicks, clickCooldown, cooldownTimers,
                 lastSyncSignal, loading, stored, profile, autoSyncInterval,
                 isBuying, issueOrder, net, submitPc, ticks, syncDue, synced,
                 settled>>

Next ==
  \/ HandleClickDropped
  \/ HandleClickAccepted
  \/ CooldownExpire
  \/ AutoGeneration
  \/ AutoSync
  \/ AdvanceTime
  \/ InitGame
  \/ \E i \in 1..Len(net) : InitOk(i)
  \/ \E i \in 1..Len(net) : InitFail(i)
  \/ \E i \in 1..Len(net) : SyncOk(i)
  \/ \E i \in 1..Len(net) : SyncFail(i)
  \/ \E id \in UpgradeIds : BuyUpgrade(id)
  \/ \E i \in 1..Len(net) : UpgradeOk(i)
  \/ \E i \in 1..Len(net) : UpgradeFail(i)
  \/ Prestige
  \/ \E i \in 1..Len(net) : PrestigeOk(i)
  \/ \E i \in 1..Len(net) : PrestigeFail(i)
  \/ BuySkin
  \/ \E i \in 1..Len(net) : BuySkinOk(i)
  \/ \E i \in 1..Len(net) : BuySkinFail(i)
  \/ ResetGame
  \/ \E i \in 1..Len(net) : ResetOk(i)
  \/ \E i \in 1..Len(net) : ResetFail(i)
  \/ ClickGoldenBanana
  \/ \E i \in 1..Len(net) : GoldenOk(i)
  \/ \E i \in 1..Len(net) : GoldenFail(i)
  \/ \E name \in Names : SubmitScore(name)
  \/ \E i \in 1..Len(net) : SubmitSyncOk(i)
  \/ \E i \in 1..Len(net) : SubmitSyncFail(i)
  \/ \E i \in 1..Len(net) : SubmitDone(i)
  \/ OfflineEffect
  \/ NgOnDestroy
  \/ \E id \in UpgradeIds : EnhancedClickerBuyUpgrade(id)

Spec == Init /\ [][Next]_vars

\* The sync core on its own: governor, ticker, sync timer, sync responses
\* and the offline-earnings effect.
NextSync ==
  \/ HandleClickDropped
  \/ HandleClickAccepted
  \/ CooldownExpire
  \/ AutoGeneration
  \/ AutoSync
  \/ AdvanceTime
  \/ \E i \in 1..Len(net) : SyncOk(i)
  \/ \E i \in 1..Len(net) : SyncFail(i)
  \/ OfflineEffect

SpecSync == Init /\ [][NextSync]_vars

\* A period of the sync timer elapses (the clock itself left aside).
IntervalElapses ==
  /\ autoSyncInterval
  /\ ~syncDue
  /\ syncDue' = TRUE
  /\ ev' = Quiet
  /\ UNCHANGED <<now, gs, upgrades, pendingClicks, clickCooldown,
                 cooldownTimers, lastSyncSignal, loading, stored, profile,
                 autoSyncInterval, isBuying, issueOrder, net, submitPc,
                 effectDirty, ticks, synced, settled>>

\* From here on every sync is answered with success and no click comes.
Settle ==
  /\ ~settled
  /\ settled' = TRUE
  /\ ev' = Quiet
  /\ UNCHANGED <<now, gs, upgrades, pendingClicks, clickCooldown,
                 cooldownTimers, lastSyncSignal, loading, stored, profile,
                 autoSyncInterval, isBuying, issueOrder, net, submitPc,
                 effectDirty, ticks, syncDue, synced>>

\* The retry loop: clicks, the recurring sync timer and the answers to its
\* requests.  The interval keeps elapsing, the event loop runs a queued
\* timer callback, and every request is answered.
NextRetry ==
  \/ HandleClickAccepted
  \/ CooldownExpire
  \/ IntervalElapses
  \/ AutoSync
  \/ \E i \in 1..Len(net) : SyncOk(i)
  \/ \E i \in 1..Len(net) : SyncFail(i)
  \/ Settle

SpecRetry ==
  /\ Init /\ [][NextRetry]_vars
  /\ WF_vars(IntervalElapses)
  /\ WF_vars(AutoSync)
  /\ WF_vars(\E i \in 1..Len(net) : SyncOk(i) \/ SyncFail(i))

\* Score submission among the sync triggers: governor, sync timer, sync
\* responses and submitScore.
NextSubmit ==
  \/ HandleClickDropped
  \/ HandleClickAccepted
  \/ CooldownExpire
  \/ AutoSync
  \/ AdvanceTime
  \/ \E i \in 1..Len(net) : SyncOk(i)
  \/ \E i \in 1..Len(net) : SyncFail(i)
  \/ \E name \in Names : SubmitScore(name)
  \/ \E i \in 1..Len(net) : SubmitSyncOk(i)
  \/ \E i \in 1..Len(net) : SubmitSyncFail(i)
  \/ \E i \in 1..Len(net) : SubmitDone(i)

SpecSubmit == Init /\ [][NextSubmit]_vars

\* handleClick while few clicks are pending.
HandleClickInStore ==
  /\ pendingClicks < MaxStoreClicks
  /\ HandleClickAccepted

\* The state-replacing round trips next to clicks and the sync timer:
\* governor, session start, purchases, prestige, skins, reset and sync
\* responses.
NextStore ==
  \/ HandleClickInStore
  \/ CooldownExpire
  \/ IntervalElapses
  \/ AutoSync
  \/ InitGame
  \/ \E i \in 1..Len(net) : InitOk(i)
  \/ \E i \in 1..Len(net) : InitFail(i)
  \/ \E i \in 1..Len(net) : SyncOk(i)
  \/ \E i \in 1..Len(net) : SyncFail(i)
  \/ \E id \in UpgradeIds : BuyUpgrade(id)
  \/ \E i \in 1..Len(net) : UpgradeOk(i)
  \/ \E i \in 1..Len(net) : UpgradeFail(i)
  \/ Prestige
  \/ \E i \in 1..Len(net) : PrestigeOk(i)
  \/ \E i \in 1..Len(net) : PrestigeFail(i)
  \/ BuySkin
  \/ \E i \in 1..Len(net) : BuySkinOk(i)
  \/ \E i \in 1..Len(net) : BuySkinFail(i)
  \/ ResetGame
  \/ \E i \in 1..Len(net) : ResetOk(i)
  \/ \E i \in 1..Len(net) : ResetFail(i)

SpecStore == Init /\ [][NextStore]_vars

\* Score submission on its own: a few clicks, and submitScore with the sync
\* it awaits and the answer to its submission.
NextScore ==
  \/ HandleClickInStore
  \/ CooldownExpire
  \/ \E name \in Names : SubmitScore(name)
  \/ \E i \in 1..Len(net) : SubmitSyncOk(i)
  \/ \E i \in 1..Len(net) : SubmitSyncFail(i)
  \/ \E i \in 1..Len(net) : SubmitDone(i)

SpecScore == Init /\ [][NextScore]_vars

\* The two timers and the teardown: session start, clicks, the ticker, the
\* sync timer with its answers, and ngOnDestroy.
NextTeardown ==
  \/ InitGame
  \/ \E i \in 1..Len(net) : InitOk(i)
  \/ HandleClickInStore
  \/ CooldownExpire
  \/ AutoGeneration
  \/ OfflineEffect
  \/ IntervalElapses
  \/ AutoSync
  \/ \E i \in 1..Len(net) : SyncOk(i)
  \/ \E i \in 1..Len(net) : SyncFail(i)
  \/ NgOnDestroy

SpecTeardown == Init /\ [][NextTeardown]_vars

\* Sync requests outstanding together: clicks, the sync timer and the
\* answers to its requests, with the requests kept in issue order.
NextOrder ==
  \/ HandleClickInStore
  \/ CooldownExpire
  \/ IntervalElapses
  \/ AutoSync
  \/ \E i \in 1..Len(net) : SyncOk(i)
  \/ \E i \in 1..Len(net) : SyncFail(i)

SpecOrder == InitInIssueOrder /\ [][NextOrder]_vars

\* Purchases made through the EnhancedClicker component: session start,
\* clicks, the component's buyUpgrade and the answers to its requests.
NextBuying ==
  \/ InitGame
  \/ \E i \in 1..Len(net) : InitOk(i)
  \/ HandleClickInStore
  \/ CooldownExpire
  \/ \E id \in UpgradeIds : EnhancedClickerBuyUpgrade(id)
  \/ \E i \in 1..Len(net) : UpgradeOk(i)
  \/ \E i \in 1..Len(net) : UpgradeFail(i)

SpecBuying == Init /\ [][NextBuying]_vars

\* Prestige on its own: session start, clicks, prestige and the answers to
\* its request.
NextPrestige ==
  \/ InitGame
  \/ \E i \in 1..Len(net) : InitOk(i)
  \/ HandleClickInStore
  \/ CooldownExpire
  \/ Prestige
  \/ \E i \in 1..Len(net) : PrestigeOk(i)
  \/ \E i \in 1..Len(net) : PrestigeFail(i)

SpecPrestige == Init /\ [][NextPrestige]_vars

\* The ledger under every operation that writes it: clicks, passive ticks,
\* offline credits, golden bananas, and the responses that replace it.  The
\* player and the sync timer start a round trip when none is under way;
\* clicks, ticks and the effect run while one is.
EconomyCall ==
  \/ AutoSync
  \/ InitGame
  \/ \E id \in UpgradeIds : BuyUpgrade(id)
  \/ Prestige
  \/ BuySkin
  \/ ClickGoldenBanana
  \/ ResetGame

NextEconomy ==
  \/ HandleClickInStore
  \/ CooldownExpire
  \/ AutoGeneration
  \/ OfflineEffect
  \/ IntervalElapses
  \/ net = <<>> /\ EconomyCall
  \/ \E i \in 1..Len(net) : SyncOk(i)
  \/ \E i \in 1..Len(net) : InitOk(i)
  \/ \E i \in 1..Len(net) : UpgradeOk(i)
  \/ \E i \in 1..Len(net) : UpgradeFail(i)
  \/ \E i \in 1..Len(net) : PrestigeOk(i)
  \/ \E i \in 1..Len(net) : BuySkinOk(i)
  \/ \E i \in 1..Len(net) : GoldenOk(i)
  \/ \E i \in 1..Len(net) : GoldenFail(i)
  \/ \E i \in 1..Len(net) : ResetOk(i)

SpecEconomy == Init /\ [][NextEconomy]_vars

\* The click governor with the requests its clicks post: the timer callback
\* scheduled by an accepted click is run by the event loop.
NextGovernor ==
  \/ HandleClickDropped
  \/ HandleClickAccepted
  \/ CooldownExpire
  \/ \E i \in 1..Len(net) : SyncOk(i)
  \/ \E i \in 1..Len(net) : SyncFail(i)

SpecGovernor ==
  Init /\ [][NextGovernor]_vars /\ WF_vars(CooldownExpire)

\* ------------------------------------------------- return after an absence
\* Session starts at ReturnTime against a ledger last synced some time
\* before: how long the player was away, the ledger's passive rate and its
\* balance are the remote authority's.
AbsencesMs ==
  {0, 30000, 59999, 60000, 60001, 60500, 61000, 3600000, 7200000,
   MAX_OFFLINE_SECONDS * 1000 - 1, MAX_OFFLINE_SECONDS * 1000,
   MAX_OFFLINE_SECONDS * 1000 + 1, 100000000}
AbsentRates == {0, 1, 2, 5}
AbsentBalances == {0, 7}
ReturnTime == T0 + 100000000

AbsentLedgers(sid) ==
  { [sessionId |-> sid, bananas |-> b, bananasPerClick |-> 1,
     bananasPerSecond |-> r, totalClicks |-> b,
     lastSyncTime |-> ReturnTime - a,
     bananaDNA |-> 0, totalBananasEarned |-> b, prestigeCount |-> 0] :
    a \in AbsencesMs, r \in AbsentRates, b \in AbsentBalances }

\* The service built at ReturnTime.
InitOnReturn ==
  /\ now = ReturnTime
  /\ gs = [DefaultState EXCEPT !.lastSyncTime = ReturnTime]
  /\ upgrades = EmptyCatalog
  /\ pendingClicks = 0
  /\ clickCooldown = FALSE
  /\ cooldownTimers = 0
  /\ lastSyncSignal = ReturnTime
  /\ loading = TRUE
  /\ stored \in StoredAtStart
  /\ net = <<>>
  /\ submitPc = SubmitIdle
  /\ effectDirty = TRUE
  /\ ticks = 0
  /\ syncDue = FALSE
  /\ synced = FALSE
  /\ settled = FALSE
  /\ profile = DefaultProfile
  /\ autoSyncInterval = TRUE
  /\ isBuying = FALSE
  /\ issueOrder = FALSE
  /\ ev = Ev("constructed")

\* initGame resumed with the ledger of an absent player.
InitOkAfterAbsence(i) ==
  /\ net[i].kind = "init"
  /\ \E sid \in (IF net[i].sessionId = NoSession THEN SessionIds
                 ELSE {net[i].sessionId}) :
       \E st \in AbsentLedgers(sid) : InitResumed(i, sid, EmptyCatalog, st)

NextOffline ==
  \/ InitGame
  \/ \E i \in 1..Len(net) : InitOkAfterAbsence(i)

SpecOffline == InitOnReturn /\ [][NextOffline]_vars

\* The session start of a returning player followed by the runs of the
\* constructor's effect that the loaded state schedules.
NextRestart ==
  \/ InitGame
  \/ \E i \in 1..Len(net) : InitOkAfterAbsence(i)
  \/ OfflineEffect

SpecRestart == InitOnReturn /\ [][NextRestart]_vars

\* ------------------------------------------------------------ price list
\* Catalogs of one upgrade, of any tier, base cost and owned count, as the
\* init response may carry them, and the page pricing the entries it lists.
UpgradeTiers == {"click", "auto", "boost", "prestige", "synergy"}
BaseCosts == {0, 1, 7, 10, 100}

PricedCatalogs ==
  { [i \in {IF t = "prestige" THEN "dna_1" ELSE "click_1"} |->
       [baseCost |-> b, type |-> t, owned |-> k]] :
    b \in BaseCosts, t \in UpgradeTiers, k \in 0..MaxOwned }

InitOkPriced(i) ==
  /\ net[i].kind = "init"
  /\ \E sid \in (IF net[i].sessionId = NoSession THEN SessionIds
                 ELSE {net[i].sessionId}),
        cat \in PricedCatalogs :
       \E st \in ServerStates(sid) : InitResumed(i, sid, cat, st)

\* getCost(upgrade) of the page, for an entry of the catalog.
GetCost(id) ==
  /\ id \in DOMAIN upgrades
  /\ \E c \in calculateUpgradeCostResults(upgrades[id]) :
       ev' = [kind |-> "getCost", upgrade |-> upgrades[id], cost |-> c]
  /\ UNCHANGED <<now, gs, upgrades, pendingClicks, clickCooldown,
                 cooldownTimers, lastSyncSignal, loading, stored, profile,
                 autoSyncInterval, isBuying, issueOrder, net, submitPc,
                 effectDirty, ticks, syncDue, synced, settled>>

\* canAffordUpgrade()(cost, isDNA) evaluated by a caller.
CostsAsked == {0, 1, 2, 9, 10, 11}

CanAfford(cost, isDNA) ==
  /\ ev' = [kind |-> "canAfford", cost |-> cost, isDNA |-> isDNA,
            before |-> Snap,
            result |-> canAffordUpgrade(gs, cost, isDNA)]
  /\ UNCHANGED <<now, gs, upgrades, pendingClicks, clickCooldown,
                 cooldownTimers, lastSyncSignal, loading, stored, profile,
                 autoSyncInterval, isBuying, issueOrder, net, submitPc,
                 effectDirty, ticks, syncDue, synced, settled>>

NextPrices ==
  \/ InitGame
  \/ \E cost \in CostsAsked, isDNA \in BOOLEAN : CanAfford(cost, isDNA)
  \/ \E i \in 1..Len(net) : InitOkPriced(i)
  \/ \E id \in UpgradeIds : GetCost(id)

SpecPrices == Init /\ [][NextPrices]_vars

\* -------------------------------------------------------- number display
\* formatNumber.  Its argument is kept in halves (h stands for h / 2) so
\* that values with a fraction reach Math.floor; step is the weight of the
\* last digit toFixed keeps, and scaled the number toFixed prints without
\* its decimal point.  toFixed rounds the double num / unit: where the
\* exact quotient lies halfway between two printable values the double may
\* sit on either side, so both roundings are outcomes.
Fixed(h, step, decimals, suffix) ==
  LET up == (h + step) \div (2 * step) IN
  { [scaled |-> k, decimals |-> decimals, suffix |-> suffix] :
    k \in (IF h % (2 * step) = step THEN {up - 1, up} ELSE {up}) }

formatNumberAbove(h) ==
  IF h > 2 * 1000000000 THEN Fixed(h, 10000000, 2, "B")
  ELSE IF h > 2 * 1000000 THEN Fixed(h, 10000, 2, "M")
  ELSE IF h > 2 * 1000 THEN Fixed(h, 100, 1, "K")
  ELSE {[scaled |-> h \div 2, decimals |-> 0, suffix |-> ""]}

formatNumber(h) ==
  IF h >= 2 * 1000000000 THEN Fixed(h, 10000000, 2, "B")
  ELSE IF h >= 2 * 1000000 THEN Fixed(h, 10000, 2, "M")
  ELSE IF h >= 2 * 1000 THEN Fixed(h, 100, 1, "K")
  ELSE {[scaled |-> h \div 2, decimals |-> 0, suffix |-> ""]}

\* The string: the digits, a point before the last decimals of them, the
\* suffix.
Digits(n, width) ==
  IF width = 2 /\ n < 10 THEN "0" \o ToString(n) ELSE ToString(n)

Text(r) ==
  LET unit == Pow(10, r.decimals) IN
  IF r.decimals = 0 THEN ToString(r.scaled) \o r.suffix
  ELSE ToString(r.scaled \div unit) \o "." \o
       Digits(r.scaled % unit, r.decimals) \o r.suffix

\* Arguments, in halves: around every power of ten and every bucket bound.
FormatMantissas == {1, 2, 3, 15, 199, 201, 299, 1999, 2001, 2009, 2100}
FormatInputs ==
  {0, 1} \cup
  { m * Pow(10, e) - o : m \in FormatMantissas, e \in 0..6, o \in {0, 1} }

FormatNumber(h) ==
  /\ \E r \in formatNumber(h) :
       ev' = [kind |-> "format", halves |-> h, out |-> r, text |-> Text(r)]
  /\ UNCHANGED <<now, gs, upgrades, pendingClicks, clickCooldown,
                 cooldownTimers, lastSyncSignal, loading, stored, profile,
                 autoSyncInterval, isBuying, issueOrder, net, submitPc,
                 effectDirty, ticks, syncDue, synced, settled>>

NextFormat == \E h \in FormatInputs : FormatNumber(h)

SpecFormat == Init /\ [][NextFormat]_vars

\* --------------------------------------------------------- session switch
\* The session modal of the page.  changeSession refuses an id that trims
\* to nothing; otherwise it stores the id as typed and calls initGame.
\* createNewSession removes the stored id and calls initGame.  A player who
\* declines the confirm() leaves everything as it was.
SwitchIds == {"", "s1", "s2"}

ChangeSession(id) ==
  IF id = ""
    THEN /\ ev' = EvB("switchRefused")
         /\ UNCHANGED <<now, gs, upgrades, pendingClicks, clickCooldown,
                        cooldownTimers, lastSyncSignal, loading, stored,
                        profile, autoSyncInterval, isBuying, issueOrder, net,
                        submitPc, effectDirty, ticks, syncDue, synced,
                        settled>>
    ELSE /\ Len(net) < MaxInflight /\ CallsInFlight(net) < MaxCalls
         /\ stored' = id
         /\ loading' = TRUE
         /\ net' = Post(net, Req("init", "changeSession", stored', 0, ""))
         /\ ev' = EvS("switchCall", net')
         /\ UNCHANGED <<now, gs, upgrades, pendingClicks, clickCooldown,
                        cooldownTimers, lastSyncSignal, submitPc,
                        effectDirty, ticks, syncDue, synced, settled,
                        profile, autoSyncInterval, isBuying, issueOrder>>

CreateNewSessionKeepingId ==
  /\ Len(net) < MaxInflight /\ CallsInFlight(net) < MaxCalls
  /\ stored' = stored
  /\ loading' = TRUE
  /\ net' = Post(net, Req("init", "createNewSession", stored', 0, ""))
  /\ ev' = EvS("freshCall", net')
  /\ UNCHANGED <<now, gs, upgrades, pendingClicks, clickCooldown,
                 cooldownTimers, lastSyncSignal, submitPc, effectDirty,
                 ticks, syncDue, synced, settled, profile,
                 autoSyncInterval, isBuying, issueOrder>>

CreateNewSession ==
  /\ Len(net) < MaxInflight /\ CallsInFlight(net) < MaxCalls
  /\ stored' = NoSession
  /\ loading' = TRUE
  /\ net' = Post(net, Req("init", "createNewSession", stored', 0, ""))
  /\ ev' = EvS("freshCall", net')
  /\ UNCHANGED <<now, gs, upgrades, pendingClicks, clickCooldown,
                 cooldownTimers, lastSyncSignal, submitPc, effectDirty,
                 ticks, syncDue, synced, settled, profile,
                 autoSyncInterval, isBuying, issueOrder>>

\* Session starts and switches next to clicks and the sync timer.  The page
\* holds its isLoading flag from the call to the return of initGame, so
\* the modal starts one session call at a time.
SessionCall ==
  \/ InitGame
  \/ \E id \in SwitchIds : ChangeSession(id)
  \/ CreateNewSession

NextSession ==
  \/ CallsInFlight(net) = 0 /\ SessionCall
  \/ \E i \in 1..Len(net) : InitOk(i)
  \/ \E i \in 1..Len(net) : InitFail(i)
  \/ HandleClickInStore
  \/ CooldownExpire
  \/ IntervalElapses
  \/ AutoSync
  \/ \E i \in 1..Len(net) : SyncOk(i)
  \/ \E i \in 1..Len(net) : SyncFail(i)

SpecSession == Init /\ [][NextSession]_vars

\* ----------------------------------------------------- session resolution
\* The page is opened with whatever the browser kept from earlier visits:
\* no id, an id, or a storage that refuses access.
StoredOnVisit == {NoSession, "s1", StorageBlocked}

InitOnVisit ==
  /\ now = T0
  /\ gs = DefaultState
  /\ upgrades = EmptyCatalog
  /\ pendingClicks = 0
  /\ clickCooldown = FALSE
  /\ cooldownTimers = 0
  /\ lastSyncSignal = T0
  /\ loading = TRUE
  /\ stored \in StoredOnVisit
  /\ net = <<>>
  /\ submitPc = SubmitIdle
  /\ effectDirty = TRUE
  /\ ticks = 0
  /\ syncDue = FALSE
  /\ synced = FALSE
  /\ settled = FALSE
  /\ profile = DefaultProfile
  /\ autoSyncInterval = TRUE
  /\ isBuying = FALSE
  /\ issueOrder = FALSE
  /\ ev = Ev("constructed")

NextResolve ==
  \/ InitGame
  \/ \E i \in 1..Len(net) : InitOk(i)
  \/ \E i \in 1..Len(net) : InitStoreThrows(i)
  \/ \E i \in 1..Len(net) : InitFail(i)
  \/ HandleClickInStore
  \/ CooldownExpire

SpecResolve == InitOnVisit /\ [][NextResolve]_vars

\* ================================================================== claims
SyncInvoked ==
  \/ ev.kind \in {"autoSync", "submitSync"}
  \/ ev.kind = "submitSent" /\ ev.sync = "skipped"
  \/ ev.kind = "click" /\ BatchFull(pendingClicks)

SyncRequest(caller) ==
  Req("sync", caller, gs.sessionId, pendingClicks, "")

\* C1: right after syncWithServer has processed a successful response, the
\* game state is the state the response carried, whatever was applied
\* locally while the request was in flight.
C1_SyncResponseWins == ev.kind = "syncOk" => gs = ev.state

\* C1 witness: a sync sent with ten pending clicks is answered with nine
\* bananas after an eleventh click was applied locally.
C1_Witness ==
  /\ ev.kind = "syncOk"
  /\ ev.req.pendingClicks = 10 /\ ev.pending = 11 /\ ev.local = 11
  /\ gs.bananas = 9

\* C2: at most one sync request is in flight at any time.
C2_AtMostOneSyncInFlight == SyncsInFlight(net) <= 1

\* C3 (as stated): after any successful replacement of the game state by a
\* server response, pendingClicks is 0.
C3_PendingZeroAfterAnyReplacement ==
  ev.kind \in {"initOk", "syncOk", "upgradeOk", "prestigeOk", "buySkinOk",
               "resetOk"} => pendingClicks = 0

\* C3 (amended): after a successful sync response pendingClicks is 0; a
\* successful init, upgrade, prestige, buy-skin or reset response replaces
\* the game state and leaves pendingClicks as it was.
C3_PendingAfterReplacement ==
  /\ ev.kind = "syncOk" => pendingClicks = 0
  /\ ev.kind \in {"initOk", "upgradeOk", "prestigeOk", "buySkinOk",
                  "resetOk"} => pendingClicks = ev.pending
  /\ ev.kind \in {"syncOk", "upgradeOk", "prestigeOk", "buySkinOk",
                  "resetOk"} => gs = ev.state

\* C3 witness: an upgrade response has replaced the state while clicks are
\* still pending.
C3_Witness == ev.kind = "upgradeOk" /\ gs = ev.state /\ pendingClicks > 0

\* C4: a failed sync leaves the game state, pendingClicks and lastSyncSignal
\* as they were when the response or error arrived.
C4_FailedSyncChangesNothing ==
  ev.kind = "syncFail" =>
    /\ gs = ev.before.gs
    /\ pendingClicks = ev.before.pendingClicks
    /\ lastSyncSignal = ev.before.lastSyncSignal

\* C4 witness: a sync carrying a full batch has failed and the batch is
\* still pending.
C4_Witness == ev.kind = "syncFail" /\ pendingClicks >= 10

\* C5 (as stated): syncWithServer is a no-op exactly when pendingClicks = 0
\* and fewer than 10 000 ms have passed since the last successful sync or
\* init; otherwise it sends exactly one sync request.
C5_SkipsOnlyAfterASuccess ==
  SyncInvoked =>
    ev.sent = (IF pendingClicks = 0 /\ synced
                    /\ now - lastSyncSignal < SYNC_MIN_GAP_MS
                 THEN 0 ELSE 1)

\* C5 (amended): syncWithServer is a no-op exactly when pendingClicks = 0
\* and fewer than 10 000 ms have passed since lastSyncSignal was set, which
\* happens at the last successful sync or init and at construction;
\* otherwise it sends exactly one sync request, carrying pendingClicks.
C5_SkipsByLastSyncSignal ==
  SyncInvoked =>
    IF pendingClicks = 0 /\ now - lastSyncSignal < SYNC_MIN_GAP_MS
      THEN ev.sent = 0 /\ Snap = ev.before
      ELSE /\ ev.sent = 1
           /\ ev.posted = {SyncRequest(IF ev.kind = "submitSync"
                                          THEN "submitScore"
                                          ELSE "syncWithServer")}

\* C5 witness: the sync timer fires within 10 s of a successful sync with
\* nothing pending, and nothing is sent.
C5_Witness ==
  ev.kind = "autoSync" /\ ev.sent = 0 /\ synced /\ pendingClicks = 0

\* C6: an accepted click that brings pendingClicks to 10 starts a sync in
\* the same step, whatever the staleness guard; an accepted click that
\* leaves pendingClicks below 10 starts none.
C6_BatchTriggersSync ==
  ev.kind = "click" =>
    /\ pendingClicks >= SYNC_BATCH_CLICKS =>
         /\ ev.sent = 1
         /\ ev.posted = {SyncRequest("syncWithServer")}
    /\ pendingClicks < SYNC_BATCH_CLICKS => ev.sent = 0

\* C6 witness: the tenth pending click, less than 10 s after construction,
\* has posted a sync.
C6_Witness ==
  /\ ev.kind = "click" /\ pendingClicks = 10 /\ ev.sent = 1
  /\ now - lastSyncSignal < SYNC_MIN_GAP_MS

\* C7: every submit-score request is sent after a sync request of the same
\* submitScore call has succeeded and replaced the state.
C7_SubmitAfterSuccessfulSync ==
  ev.kind = "submitSent" => ev.sync = "ok"

\* C8: once every sync is answered with success and no click comes, pending
\* clicks are eventually cleared by the retries of the sync timer.
C8_RetryClearsPending == (settled /\ pendingClicks > 0) ~> (pendingClicks = 0)

\* C8 witness: clicks are pending, the server has recovered, and no request
\* is in flight nor any timer callback queued: only a later firing of the
\* timer can clear them.
C8_Witness ==
  settled /\ pendingClicks > 0 /\ net = <<>> /\ ~syncDue

\* C9: handleClick during the cooldown changes nothing: not the game state,
\* nor pendingClicks, nor the cooldown flag and its timers, and no sync
\* request is posted.
C9_ClickInCooldownDropped ==
  (ev.kind \in {"click", "clickDropped"} /\ ev.before.clickCooldown) =>
    Snap = ev.before /\ ev.sent = 0

\* C9 witness: a click was dropped while nine clicks were pending.
C9_Witness == ev.kind = "clickDropped" /\ pendingClicks = 9

\* C10: an accepted click adds bananasPerClick to bananas and to
\* totalBananasEarned, and 1 to totalClicks and to pendingClicks.
C10_AcceptedClickAdds ==
  ev.kind = "click" =>
    /\ gs.bananas = ev.before.gs.bananas + ev.before.gs.bananasPerClick
    /\ gs.totalClicks = ev.before.gs.totalClicks + 1
    /\ gs.totalBananasEarned =
         ev.before.gs.totalBananasEarned + ev.before.gs.bananasPerClick
    /\ pendingClicks = ev.before.pendingClicks + 1
    /\ ~ev.before.clickCooldown

\* C10 witness: an accepted click with a multiplier of 2.
C10_Witness ==
  /\ ev.kind = "click" /\ ev.before.gs.bananasPerClick = 2
  /\ gs.bananas = ev.before.gs.bananas + 2

\* C11: whenever the cooldown flag is set it is eventually cleared by the
\* timer the accepted click scheduled: the flag is never stuck set, and the
\* governor is back to accepting clicks.
C11_CooldownEventuallyClears == clickCooldown ~> ~clickCooldown

\* C11 witness: the governor is cooling for the third time, so it has gone
\* from ready to cooling and back twice.
C11_Witness ==
  clickCooldown /\ cooldownTimers = 1 /\ ev.kind = "click"
    /\ pendingClicks = 3

\* C12: at most one accepted click is awaiting its cooldown expiry, and the
\* flag is set exactly while one is: between two accepted clicks the timer
\* callback of the first has run, whatever responses arrived in between.
C12_OneClickPerCooldown ==
  /\ cooldownTimers \in {0, 1}
  /\ clickCooldown <=> cooldownTimers = 1
  /\ ev.kind = "click" =>
       ~ev.before.clickCooldown /\ ev.before.cooldownTimers = 0

\* C12 witness: an init response was processed while the governor was
\* cooling after a click, and the governor is still cooling.
C12_Witness ==
  ev.kind = "initOk" /\ clickCooldown /\ cooldownTimers = 1
    /\ pendingClicks = 1

\* The steps that replace the game state by the one a response carries.
Replacements ==
  {"initOk", "syncOk", "upgradeOk", "prestigeOk", "buySkinOk", "resetOk"}

\* C13 (as stated): totalBananasEarned never decreases in any step other
\* than a reset.
C13_LifetimeNeverDecreases ==
  [][ev'.kind # "resetOk" =>
       gs'.totalBananasEarned >= gs.totalBananasEarned]_vars

\* C13 (amended): totalBananasEarned never decreases in a step that is not
\* the replacement of the state by a response: clicks, passive ticks,
\* offline credits, golden-banana rewards, refused or failed calls.  A
\* replacement sets it to what the response carries (plus the offline
\* credit at init), be that lower or not.
C13_LifetimeNeverDecreasesLocally ==
  [][/\ ev'.kind \notin Replacements =>
          gs'.totalBananasEarned >= gs.totalBananasEarned
     /\ ev'.kind \in Replacements =>
          gs'.totalBananasEarned >= ev'.state.totalBananasEarned
     /\ ev'.kind \in Replacements \ {"initOk"} =>
          gs'.totalBananasEarned = ev'.state.totalBananasEarned]_vars

\* C13 witness: a golden-banana reward was added to a lifetime total that
\* clicks had raised before.
C13_Witness ==
  /\ ev.kind = "goldenOk"
  /\ ev.before.gs.totalBananasEarned > 0
  /\ gs.totalBananasEarned = ev.before.gs.totalBananasEarned + ev.reward

\* C14: in every reachable state the lifetime total is at least the
\* balance.
C14_LifetimeAtLeastBalance == gs.totalBananasEarned >= gs.bananas

\* C14 witness: a golden-banana reward was credited to a ledger whose
\* lifetime total equals its balance, and they are still equal.
C14_Witness ==
  /\ ev.kind = "goldenOk"
  /\ gs.bananas = ev.before.gs.bananas + ev.reward
  /\ gs.totalBananasEarned = gs.bananas

\* What buyUpgrade(id) has to pay from, and what is left if it is paid.
UpgradeBalance(state, id) ==
  IF upgrades[id].type = "prestige" THEN state.bananaDNA ELSE state.bananas

UpgradeCost(id) == calculateUpgradeCost(upgrades[id])

\* C15: the balance is never negative, and buyUpgrade posts its request
\* only when paying the cost leaves the balance it is paid from at 0 or
\* more.
C15_BalanceNeverNegative ==
  /\ gs.bananas >= 0
  /\ ev.kind = "upgradeCall" =>
       UpgradeBalance(gs, ev.id) - UpgradeCost(ev.id) >= 0

\* C15 witness: an upgrade was requested with a balance equal to its cost.
C15_Witness ==
  /\ ev.kind = "upgradeCall" /\ ev.id = "click_1"
  /\ gs.bananas = UpgradeCost(ev.id)

\* The request buyUpgrade(id) posts.
UpgradeRequest(id) == Req("upgrade", "buyUpgrade", gs.sessionId, 0, id)

\* C16: buyUpgrade with an id absent from the catalog, or whose cost
\* exceeds the balance it is paid from, posts no request and changes
\* neither the game state nor the catalog; otherwise it posts exactly one
\* upgrade request, for that id and the session in force.
C16_UpgradePreCheck ==
  ev.kind \in {"upgradeNotFound", "upgradeUnaffordable", "upgradeCall"} =>
    /\ Snap = ev.before
    /\ IF ev.id \notin DOMAIN upgrades
         THEN ev.kind = "upgradeNotFound" /\ ev.posted = {}
       ELSE IF UpgradeCost(ev.id) > UpgradeBalance(gs, ev.id)
         THEN ev.kind = "upgradeUnaffordable" /\ ev.posted = {}
       ELSE /\ ev.kind = "upgradeCall"
            /\ ev.posted = {UpgradeRequest(ev.id)}
            /\ Count(net, UpgradeRequest(ev.id)) = 1

\* C16 witness: a prestige-tier upgrade was refused for lack of DNA while
\* the banana balance would have covered its cost.
C16_Witness ==
  /\ ev.kind = "upgradeUnaffordable" /\ ev.id = "dna_1"
  /\ gs.bananas >= UpgradeCost(ev.id) /\ gs.bananaDNA < UpgradeCost(ev.id)

\* C17: when the upgrade request fails, buyUpgrade leaves the game state,
\* the catalog and everything else the service holds as they were, and
\* posts no further request.
C17_UpgradeFailureChangesNothing ==
  ev.kind = "upgradeFail" =>
    /\ Snap = ev.before
    /\ ev.posted = {} /\ ev.sent = 0
    /\ \A i \in 1..Len(net) : net[i].kind # "upgrade"

\* C17 witness: an upgrade failed with a catalog loaded and a click made
\* since, and both are still there.
C17_Witness ==
  /\ ev.kind = "upgradeFail"
  /\ DOMAIN upgrades = {"click_1", "dna_1"}
  /\ pendingClicks = 1 /\ gs.bananas = 12

\* C18: when the upgrade or prestige response has success = true, the game
\* state is exactly the response's and the catalog is exactly the returned
\* upgrades keyed by id: no entry of the previous catalog survives unless
\* returned, and local gains made meanwhile are discarded.
C18_PurchaseResponseReplaces ==
  ev.kind \in {"upgradeOk", "prestigeOk"} =>
    /\ gs = ev.state
    /\ upgrades = ev.catalog
    /\ DOMAIN upgrades = DOMAIN ev.catalog

\* C18 witness: the response to an upgrade arrived after a click had raised
\* the balance to 12; the balance reads what the response carries, and the
\* prestige-tier entry the catalog had is gone as the response has none.
C18_Witness ==
  /\ ev.kind = "upgradeOk"
  /\ ev.local = 12 /\ gs.bananas = 10
  /\ DOMAIN upgrades = {"click_1"}

\* C19: a run of the ticker adds the rate in force to the balance and to
\* the lifetime total when the rate is positive and changes nothing when it
\* is 0; either way it leaves pendingClicks, the requests in flight and the
\* rest of what the service holds as they were.
C19_TickAddsRate ==
  [][AutoGeneration =>
       /\ gs' = IF gs.bananasPerSecond > 0
                  THEN [gs EXCEPT
                          !.bananas = gs.bananas + gs.bananasPerSecond,
                          !.totalBananasEarned =
                             gs.totalBananasEarned + gs.bananasPerSecond]
                  ELSE gs
       /\ pendingClicks' = pendingClicks
       /\ net' = net
       /\ UNCHANGED <<upgrades, clickCooldown, cooldownTimers,
                      lastSyncSignal, loading, stored, syncDue>>]_vars

\* C19 witness: a tick at rate 1 was credited while a click was pending,
\* and no sync was posted.
C19_Witness ==
  /\ ev.kind = "tick" /\ ev.before.gs.bananasPerSecond = 1
  /\ gs.bananas = ev.before.gs.bananas + 1
  /\ pendingClicks = 1 /\ ev.sent = 0 /\ net = <<>>

\* C20: what initGame credits on top of the ledger it loaded is
\* floor(min(elapsedSeconds, 28800) * bananasPerSecond) when elapsedSeconds
\* exceeds 60 and the rate is positive, and nothing otherwise, with
\* elapsedSeconds = (now - lastSyncTime) / 1000; the same amount goes to
\* bananas and to totalBananasEarned and no other field moves.  An hour at
\* rate 2 gives 7200, 30 s at rate 5 nothing, 100000 s at rate 1 the capped
\* 28800 and two hours at rate 5 36000.
C20_OfflineAmount ==
  ev.kind = "initOk" =>
    LET ms == now - ev.state.lastSyncTime
        r == ev.state.bananasPerSecond
        a == gs.bananas - ev.state.bananas
        w == IF ms < 28800 * 1000 THEN ms ELSE 28800 * 1000
    IN /\ gs = [ev.state EXCEPT
                  !.bananas = ev.state.bananas + a,
                  !.totalBananasEarned = ev.state.totalBananasEarned + a]
       /\ IF ms > 60 * 1000 /\ r > 0
            THEN a * 1000 <= w * r /\ w * r < (a + 1) * 1000
            ELSE a = 0
       /\ (ms = 3600 * 1000 /\ r = 2) => a = 7200
       /\ (ms = 30 * 1000 /\ r = 5) => a = 0
       /\ (ms = 100000 * 1000 /\ r = 1) => a = 28800
       /\ (ms = 7200 * 1000 /\ r = 5) => a = 36000

\* C20 witness: a ledger at rate 1 left alone for 100000 s was loaded and
\* the capped 28800 was credited to both counters.
C20_Witness ==
  /\ ev.kind = "initOk" /\ ev.state.bananasPerSecond = 1
  /\ now - ev.state.lastSyncTime = 100000 * 1000
  /\ gs.bananas = ev.state.bananas + 28800
  /\ gs.totalBananasEarned = ev.state.totalBananasEarned + 28800

\* C21: offline earnings are credited once per session start, by initGame;
\* a later run of the constructor's effect, whatever state change scheduled
\* it, adds nothing to the balance.
C21_OfflineCreditedOnce ==
  ev.kind = "effectCredit" => gs.bananas = ev.before.gs.bananas

\* C22: the cost of a non-prestige upgrade is floor(baseCost * 1.15^owned)
\* as doubles compute it, that is the whole number c with
\* c <= baseCost * (23/20)^owned <= c + 1, and it is not below any cost of
\* the same upgrade with one unit fewer owned; the cost of a prestige
\* upgrade is its baseCost whatever the owned count.
C22_UpgradeCostCurve ==
  ev.kind = "getCost" =>
    LET u == ev.upgrade
        c == ev.cost
        n == u.owned
    IN IF u.type = "prestige"
         THEN c = u.baseCost
         ELSE /\ c * Pow(20, n) <= u.baseCost * Pow(23, n)
              /\ u.baseCost * Pow(23, n) <= (c + 1) * Pow(20, n)
              /\ (n = 0 \/ u.baseCost = 0) => c = u.baseCost
              /\ n > 0 =>
                   \A p \in calculateUpgradeCostResults(
                              [u EXCEPT !.owned = n - 1]) : c >= p

\* C22 witness: an upgrade of base cost 10 owned 4 times is priced 17.
C22_Witness ==
  /\ ev.kind = "getCost" /\ ev.upgrade.owned = 4
  /\ ev.upgrade.type = "auto" /\ ev.upgrade.baseCost = 10 /\ ev.cost = 17

\* C23: canAffordUpgrade(cost, isDNA) answers true exactly when bananaDNA
\* covers the cost if isDNA is set and when bananas covers it otherwise,
\* on the game state in force, and leaves everything the service holds as
\* it was.
C23_AffordabilityPredicate ==
  ev.kind = "canAfford" =>
    /\ ev.result <=> (IF ev.isDNA THEN gs.bananaDNA >= ev.cost
                                  ELSE gs.bananas >= ev.cost)
    /\ Snap = ev.before

\* C23 witness: a DNA cost of 2 is refused with 1 DNA although the banana
\* balance would cover it.
C23_Witness ==
  /\ ev.kind = "canAfford" /\ ev.isDNA /\ ev.cost = 2 /\ ~ev.result
  /\ gs.bananaDNA = 1 /\ gs.bananas >= 2

\* C24: formatNumber answers every non-negative argument, choosing by
\* magnitude: below 1 000 the floored integer and no suffix; from 1 000
\* the argument in thousands to 1 decimal and K; from 1 000 000 in
\* millions to 2 decimals and M; from 1 000 000 000 in billions to 2
\* decimals and B.  The printed value is within half a unit of its last
\* digit of the argument, and 1 500 000 prints as "1.50M".
C24_FormatBuckets ==
  ev.kind = "format" =>
    LET h == ev.halves
        r == ev.out
        Near(step) == /\ 2 * step * r.scaled - h <= step
                      /\ h - 2 * step * r.scaled <= step
    IN /\ h < 2 * 1000 =>
            /\ r.suffix = "" /\ r.decimals = 0
            /\ 2 * r.scaled <= h /\ h < 2 * (r.scaled + 1)
       /\ (h >= 2 * 1000 /\ h < 2 * 1000000) =>
            r.suffix = "K" /\ r.decimals = 1 /\ Near(100)
       /\ (h >= 2 * 1000000 /\ h < 2 * 1000000000) =>
            r.suffix = "M" /\ r.decimals = 2 /\ Near(10000)
       /\ h >= 2 * 1000000000 =>
            r.suffix = "B" /\ r.decimals = 2 /\ Near(10000000)
       /\ h = 2 * 1500000 => ev.text = "1.50M"

\* C24 witness: 1 500 000 was formatted as "1.50M".
C24_Witness ==
  ev.kind = "format" /\ ev.halves = 2 * 1500000 /\ ev.text = "1.50M"

\* C25 (as stated): gameState.lastSyncTime never moves backwards.
C25_LastSyncTimeNeverBackwards ==
  [][gs'.lastSyncTime >= gs.lastSyncTime]_vars

\* C25 (amended): gameState.lastSyncTime changes only in the step in which
\* a response replaces the game state, and then becomes the lastSyncTime of
\* that response, be it older or newer; clicks, passive ticks, offline
\* credits, golden-banana rewards and refused or failed calls leave it as
\* it was.
C25_LastSyncTimeSetByResponses ==
  [][/\ ev'.kind \notin Replacements => gs'.lastSyncTime = gs.lastSyncTime
     /\ ev'.kind \in Replacements =>
          gs'.lastSyncTime = ev'.state.lastSyncTime]_vars

\* C25 witness: offline earnings were credited by the effect on a state
\* whose lastSyncTime lies before the construction of the service, and the
\* credit left lastSyncTime where it was.
C25_Witness ==
  /\ ev.kind = "effectCredit"
  /\ gs.bananas > ev.before.gs.bananas
  /\ gs.lastSyncTime = ev.before.gs.lastSyncTime
  /\ gs.lastSyncTime < T0

\* C26: when the initGame called by changeSession returns, with or without
\* a response, the stored id and gameState.sessionId are the id switched
\* to and no click of the previous session is left pending.
C26_SessionSwitchReplacesState ==
  [][\A i \in 1..Len(net) :
       (net[i].caller = "changeSession" /\ net' = RemoveAt(net, i)) =>
         /\ stored' = net[i].sessionId
         /\ gs'.sessionId = net[i].sessionId
         /\ pendingClicks' = 0]_vars

\* C27: the init request initGame posts carries the stored session id, or
\* null when none is stored or storage cannot be read; once initGame has
\* applied an init response, the stored id is the response's sessionId and
\* so is gameState.sessionId.
C27_SessionResolution ==
  [][/\ \A r \in Posted(net') :
          r.kind = "init" =>
            r.sessionId = (IF stored \in {NoSession, StorageBlocked}
                             THEN NoSession ELSE stored)
     /\ ev'.kind = "initOk" =>
          /\ stored' = ev'.state.sessionId
          /\ gs'.sessionId = ev'.state.sessionId]_vars

\* C27 witness: an init request that carried no id was answered, and the
\* id minted for it is stored and is the session of the game state.
C27_Witness ==
  /\ ev.kind = "initOk" /\ net = <<>>
  /\ stored = "s1" /\ gs.sessionId = "s1" /\ ~loading

\* C28: createNewSession removes the stored id and then posts one init
\* request that carries no session id, whatever id was stored before; when
\* that request is answered, the id the response carries is the stored id.
C28_FreshSession ==
  [][/\ ev'.kind = "freshCall" =>
          /\ stored' = NoSession
          /\ ev'.posted = {Req("init", "createNewSession", NoSession, 0, "")}
     /\ \A i \in 1..Len(net) :
          (/\ net[i].caller = "createNewSession"
           /\ net' = RemoveAt(net, i)
           /\ ev'.kind = "initOk") =>
            /\ net[i].sessionId = NoSession
            /\ stored' = ev'.state.sessionId
            /\ stored' \in SessionIds]_vars

\* C28 witness: a new session was asked for while "s2" was the stored id;
\* storage is empty and the request in flight carries no id.
C28_Witness ==
  /\ ev.kind = "freshCall" /\ ev.before.stored = "s2"
  /\ stored = NoSession
  /\ net = <<Req("init", "createNewSession", NoSession, 0, "")>>

\* C29: when the init request fails, initGame returns with the game state
\* at its default values (bananas 0, bananasPerClick 1, bananasPerSecond 0,
\* totalClicks 0) and the loading flag cleared.
C29_InitFailureGivesDefaultState ==
  ev.kind = "initFail" =>
    /\ gs.bananas = 0 /\ gs.bananasPerClick = 1
    /\ gs.bananasPerSecond = 0 /\ gs.totalClicks = 0
    /\ ~loading

\* C30: gameState.sessionId changes only when initGame applies an init
\* response; no click, timer or sync response alters it, even a response
\* to a request posted under the session that was left.
C30_SessionIdChangesOnlyAtInit ==
  [][gs'.sessionId # gs.sessionId => ev'.kind = "initOk"]_vars

\* C31: pendingClicks counts the accepted clicks that no successfully
\* answered sync request has reported: when a sync response is processed
\* with success, what stays pending is what was pending less the count the
\* request carried, so a click accepted while the request was in flight is
\* still counted.
C31_PendingCountsUnreportedClicks ==
  ev.kind = "syncOk" => pendingClicks = ev.pending - ev.req.pendingClicks

RequestPending ==
  \E i \in 1..Len(net) : net[i].kind \in {"sync", "upgrade", "prestige"}

\* C33: a request in flight blocks no optimistic mutation: while a sync,
\* upgrade or prestige request awaits its answer, a click that finds the
\* cooldown clear is accepted and applied, and a run of the ticker at a
\* positive rate is applied.
C33_OptimisticNotBlocked ==
  RequestPending =>
    /\ (~clickCooldown /\ pendingClicks < MaxStoreClicks) =>
         ENABLED (/\ HandleClickAccepted
                  /\ gs' = Clicked(gs)
                  /\ pendingClicks' = pendingClicks + 1)
    /\ (gs.bananasPerSecond > 0 /\ ticks < MaxTicks) =>
         ENABLED (AutoGeneration /\ gs' = Ticked(gs))

\* C33 witness: a click was accepted while a prestige request was in flight.
C33_ClickDuringPrestige ==
  /\ ev.kind = "click" /\ pendingClicks = ev.before.pendingClicks + 1
  /\ \E i \in 1..Len(net) : net[i].kind = "prestige"

\* C34: teardown cancels both timers: once ngOnDestroy has run, neither the
\* ticker nor the periodic sync timer fires again.
C34_NoTimerAfterDestroy ==
  ~autoSyncInterval => ev.kind \notin {"tick", "autoSync"}

\* The multipliers and counters no local mutation writes.
Frame(state) ==
  <<state.bananasPerClick, state.bananasPerSecond, state.bananaDNA,
    state.prestigeCount>>

\* C35: an accepted click, a run of the ticker, an offline credit and a
\* golden-banana reward leave bananasPerClick, bananasPerSecond, bananaDNA,
\* prestigeCount and the upgrade catalog as they were; these change only in
\* a step that applies a server response replacing the state.
C35_LocalMutationsKeepFrame ==
  [][/\ ev'.kind \in {"click", "tick", "effectCredit", "goldenOk"} =>
          Frame(gs') = Frame(gs) /\ upgrades' = upgrades
     /\ (Frame(gs') # Frame(gs) \/ upgrades' # upgrades) =>
          ev'.kind \in {"syncOk", "initOk", "upgradeOk", "prestigeOk",
                        "resetOk", "buySkinOk"}]_vars

\* C35 witness: a golden reward of 5 was credited to a ledger with a
\* multiplier of 2, a rate of 1, one DNA, one prestige and a catalog.
C35_RewardKeepsFrame ==
  /\ ev.kind = "goldenOk" /\ gs.bananas = ev.before.gs.bananas + 5
  /\ Frame(gs) = <<2, 1, 1, 1>> /\ Frame(ev.before.gs) = <<2, 1, 1, 1>>
  /\ upgrades # EmptyCatalog /\ upgrades = ev.before.upgrades

\* C36: responses are applied in request order: when the response to a
\* request has been applied while older requests were still in flight, the
\* response to one of those older requests, applied next, does not
\* overwrite the state: the state stays the response to the request issued
\* last.
C36_ResponsesInRequestOrder ==
  [][\A j \in 1..Len(net) :
       (/\ ev.kind = "syncOk" /\ j <= ev.older
        /\ ev'.kind = "syncOk" /\ net' = RemoveAt(net, j))
         => gs' = ev.state]_vars

\* C37: pending clicks do not leak across sessions: a sync request sent
\* right after initGame has loaded another session, with no click accepted
\* since, reports no clicks.
C37_NoPendingAcrossSessions ==
  [][(ev.kind = "initOk" /\ ev.switched /\ ev'.kind = "autoSync")
       => \A r \in ev'.posted :
            r.sessionId = gs.sessionId => r.pendingClicks = 0]_vars

\* C38: at most one cooldown-expiry timer is pending at any time and the
\* flag is set exactly while one is; a click is accepted only when no timer
\* is pending, so the timer that fires is the one of the latest accepted
\* click and the cooldown it clears is that click's own.
C38_OneExpiryTimer ==
  [][/\ cooldownTimers' <= 1
     /\ clickCooldown' <=> cooldownTimers' = 1
     /\ cooldownTimers' > cooldownTimers =>
          cooldownTimers = 0 /\ pendingClicks' = pendingClicks + 1
     /\ cooldownTimers' < cooldownTimers =>
          cooldownTimers = 1 /\ ~clickCooldown'
                             /\ pendingClicks' = pendingClicks]_vars

\* C38 witness: a second click was accepted after the timer of the first
\* had run, and its own timer is the only one pending.
C38_SecondClickCooling ==
  /\ ev.kind = "click" /\ pendingClicks = 2 /\ gs.totalClicks = 2
  /\ clickCooldown /\ cooldownTimers = 1

\* The upgrade requests in flight that EnhancedClicker.buyUpgrade sent.
BuyingInFlight ==
  Cardinality({i \in 1..Len(net) :
     net[i].kind = "upgrade" /\ net[i].caller = "EnhancedClicker"})

\* C39: through the EnhancedClicker component at most one upgrade request
\* is in flight: buyUpgrade called while isBuying is set, or for an upgrade
\* that cannot be afforded, sends nothing, and isBuying is back to false
\* once the attempt has ended, whether it succeeded, was rejected or threw.
C39_OnePurchaseInFlight ==
  /\ BuyingInFlight <= 1
  /\ isBuying <=> BuyingInFlight = 1
  /\ ev.kind = "buyIgnored" => ev.posted = {}
  /\ ev.kind = "buyCall" => Cardinality(ev.posted) = 1

\* C39 witness: buyUpgrade was called for an affordable upgrade while a
\* purchase was in flight, and was ignored.
C39_IgnoredWhileBuying ==
  /\ ev.kind = "buyIgnored" /\ isBuying /\ BuyingInFlight = 1
  /\ ~PurchaseRefusedWhenPoor(ev.id)

\* The prestige requests in flight.
PrestigesInFlight(n) ==
  Cardinality({i \in 1..Len(n) : n[i].kind = "prestige"})

\* C40: prestige posts its request only when totalBananasEarned is at least
\* 1 000 000 000; below that it returns a failure with dnaGained = 0 and
\* posts nothing; when the request is rejected or fails, the game state and
\* the catalog stay as they were and the result has dnaGained = 0.
C40_PrestigeGuardAndFailure ==
  [][/\ PrestigesInFlight(net') > PrestigesInFlight(net) =>
          ev'.kind = "prestigeCall" /\ gs.totalBananasEarned >= 1000000000
     /\ ev'.kind = "prestigeCall" =>
          /\ gs.totalBananasEarned >= 1000000000
          /\ PrestigesInFlight(net') = PrestigesInFlight(net) + 1
     /\ ev'.kind = "prestigeRefused" =>
          /\ gs.totalBananasEarned < 1000000000
          /\ ~ev'.result.success /\ ev'.result.dnaGained = 0
          /\ net' = net /\ gs' = gs /\ upgrades' = upgrades
     /\ ev'.kind = "prestigeFail" =>
          /\ ~ev'.result.success /\ ev'.result.dnaGained = 0
          /\ gs' = gs /\ upgrades' = upgrades]_vars

\* C40 witness: a prestige request sent from a ledger at the threshold was
\* rejected, and the ledger and its catalog are still in place.
C40_RejectedAtThreshold ==
  /\ ev.kind = "prestigeFail" /\ ev.result.dnaGained = 0
  /\ gs.totalBananasEarned >= PRESTIGE_THRESHOLD /\ gs = ev.before.gs
  /\ upgrades # EmptyCatalog /\ upgrades = ev.before.upgrades
====
